---- MODULE Spec2Model ----
(***************************************************************************)
(* Task lifecycle and merge reconciliation of the worktree orchestrator    *)
(* (GlobalClaudeOrchestrator, src/src/lib/orchestrator.ts lines 1-1811).   *)
(*                                                                         *)
(* Git history is abstracted to change sets: a commit is the set of        *)
(* changes reachable from it, so "c1 is reachable from c2" is c1 \subseteq *)
(* c2 and a rebase of tip T onto base B yields B \cup T.                   *)
(*                                                                         *)
(* Spec runs every command to completion in one action (a command is a     *)
(* short-lived single-threaded process).  SpecInterleaved runs mergeTask   *)
(* step by step, so that invocations on different tasks interleave on the  *)
(* shared repository.                                                      *)
(***************************************************************************)
EXTENDS Integers, Sequences, FiniteSets, TLC

\* ---------------------------------------------------------------- bounds
NumTasks == 2

\* external commands (git commit, reset, worktree remove, rm, the log write)
\* that fail for a reason outside the model, per behaviour
MaxFaults == 1

\* orchestrator commands (merge, check, close, kill, nuke, clean) per behaviour
MaxOps == 3

Tasks == 1..NumTasks

\* ------------------------------------------------------------- vocabulary
\* the reference of the t-th spawned branch; its name
\* `fix/${taskName}-${timestamp}` is given by stamp[t]
BranchNames == <<"fix1", "fix2", "fix3", "fix4">>

BranchOf(t) == BranchNames[t]

\* branches that exist before any task: the integration branch and one other
BaseBranches == {"main", "dev"}

TaskBranches == {BranchOf(t) : t \in Tasks}

Branches == BaseBranches \cup TaskBranches

\* working directories that are not task workspaces: the main project path
\* and one secondary worktree of the project
Locations == {"proj", "sec"}

\* the change a task makes: what its session leaves in the workspace, the
\* context files written by createTaskContext included
Work(t) == <<t, "work">>

\* filesToPreserve: one representative local-only file; its content is
\* absent, the base location's own content, or content written in a workspace
LocalContents == {"none", "own"} \cup TaskBranches

\* the caller's working directory: the project path or a directory inside
\* the workspace of a task (named by the task's branch)
Cwds == {"proj"} \cup TaskBranches

\* a workspace: exists is the directory, linked is git's registration of the
\* worktree (set by worktree add, cleared by worktree remove or prune)
NoWs == [exists |-> FALSE, linked |-> FALSE, dirty |-> FALSE,
         conflict |-> FALSE, marker |-> FALSE, local |-> "none"]

\* ids, task names and lookup keys are strings, modelled as sequences of
\* characters; an id is the randomUUID of its row, lowercase
IdFixed(t) == <<"a", "a">>

IdOf(t) == <<IF t > 2 THEN "b" ELSE "a", IF t % 2 = 0 THEN "b" ELSE "a">>

\* the task name the caller passed to spawn
Slug == <<"a">>

Projects == {"proj", "other"}

NoRow == [status |-> "none", baseBranch |-> "main",
          completedAt |-> FALSE, mergedAt |-> FALSE, session |-> FALSE,
          id |-> <<>>, name |-> <<>>, project |-> "proj"]

IdleFrame == [t |-> 0, pc |-> "idle", via |-> "none", cwd |-> "proj",
              backup |-> "none", baseLoc |-> "proj", result |-> FALSE,
              updated |-> FALSE, ffFrom |-> {}, ffTo |-> {}]

NoCall == [op |-> "none", calls |-> <<>>, checked |-> 0, completed |-> 0,
           merged |-> 0, task |-> 0, fail |-> "none", threw |-> FALSE,
           again |-> FALSE, cmd |-> "none", key |-> <<>>, scope |-> "none"]

\* last after a command that calls mergeTask nowhere
Ran(op) == [NoCall EXCEPT !.op = op]

VARIABLES
  tasks,      \* tasks table: row of each task id
  taskCount,  \* projects.task_count of the project
  refs,       \* refs/heads of the shared repository
  remote,     \* origin's copy of the integration branch, if any; the
              \* orchestrator never pushes, so it stays where it was
  ws,         \* task workspaces (linked worktrees)
  head,       \* branch checked out at each location ("none": no worktree)
  locLocal,   \* content of the local-only file at each location
  autoMerge,  \* settings.autoMerge
  inv,        \* SpecInterleaved: frame of the mergeTask in flight per task
  succeeded,  \* tasks for which a mergeTask invocation has returned true
  last,       \* the command that ran in the last step ("none": a step of
              \* the environment), the mergeTask invocations that returned
              \* in it, the counts a check returned, the task a key named,
              \* where the command failed, whether it threw, and whether
              \* it repeats the command of the step before
  faults,     \* failures of external commands so far
  ops,        \* orchestrator commands run so far
  stamp,      \* Date.now() in the branch name and workspace path of each
              \* task (0: not spawned)
  registered, \* the projects table has a row for the project path
  tree,       \* commit whose files are checked out at each location
  platform,   \* process.platform
  defaultBranch  \* projects.default_branch of the project ("none": no row)

vars == <<tasks, taskCount, refs, remote, ws, head, locLocal, autoMerge,
          inv, succeeded, last, faults, ops, stamp, registered, tree,
          platform, defaultBranch>>

\* ------------------------------------------------------------------ Init
\* git allows a branch to be checked out in one worktree only
HeadConfigs ==
  {h \in [Locations -> BaseBranches \cup {"none"}] :
     h["proj"] # "none" /\ h["proj"] # h["sec"] /\ h["sec"] # "dev"}

\* the default installation: the integration branch checked out at the
\* project path, no remote, autoMerge on (defaultSettings)
DefaultHead == [l \in Locations |-> IF l = "proj" THEN "main" ELSE "none"]

Platforms == {"linux", "darwin", "win32"}

\* configurations differ from the default in at most one setting
Deviations(h, r, a) ==
  (IF h = DefaultHead THEN 0 ELSE 1) + (IF r THEN 1 ELSE 0)
  + (IF a THEN 0 ELSE 1)

Init ==
  /\ tasks = [t \in Tasks |-> NoRow]
  /\ taskCount = 0
  /\ refs = [b \in Branches |->
               [exists |-> b \in BaseBranches, tip |-> {}]]
  /\ remote \in {[exists |-> e, tip |-> {}] : e \in BOOLEAN}
  /\ ws = [t \in Tasks |-> NoWs]
  /\ head \in HeadConfigs
  /\ locLocal = [l \in Locations |->
                    IF head[l] = "none" THEN "none" ELSE "own"]
  /\ autoMerge \in BOOLEAN
  /\ platform = "linux"
  /\ Deviations(head, remote.exists, autoMerge) <= 1
  /\ stamp = [t \in Tasks |-> 0]
  /\ registered = FALSE
  /\ tree = [l \in Locations |-> {}]
  /\ inv = [t \in Tasks |-> IdleFrame]
  /\ succeeded = {}
  /\ last = NoCall
  /\ faults = 0
  /\ ops = 0
  /\ defaultBranch = "none"

\* --------------------------------------------------------------- spawn
\* ids are handed out in order of creation; a slot is taken once the
\* worktree of its spawn was added
NextId(t) ==
  /\ stamp[t] = 0
  /\ \A u \in Tasks : u < t => stamp[u] # 0

\* Date.now() of a spawn: a value no earlier spawn has seen (the slot's own
\* index), or the value of an earlier spawn (the same millisecond, or a
\* clock that was set back)
Stamps == 1..NumTasks

\* branch `fix/${taskName}-${timestamp}` and workspace path
\* `${taskName}-${timestamp}` of equal slug: git worktree add -b refuses a
\* branch name or a path that exists
NameTakenNever(s) == FALSE

NameTaken(s) ==
  \E u \in Tasks :
    stamp[u] = s /\ (refs[BranchOf(u)].exists \/ ws[u].exists)

\* git worktree add -b <branch> <worktreePath> <baseBranch>
WorktreeAdd(r, t, base) ==
  [r EXCEPT ![BranchOf(t)] = [exists |-> TRUE, tip |-> r[base].tip]]

\* options.project absent (detectProject), an existing path, or the name of
\* a registered project (getProject)
Resolutions == {"cwd", "path", "name"}

\* where a spawn fails: nowhere, in git worktree add, in the INSERT, in
\* provider.validate, or in provider.launch
SpawnFailures == {"none", "add", "insert", "validate", "launch"}

\* provider.launch returns the tmux session name, undefined on win32
LaunchHandle(p) == p # "win32"

\* provider.launch when the terminal cannot be started: darwin catches the
\* error and returns undefined; win32 throws from execSync; elsewhere
\* spawn() returns, the session name is stored, and the 'error' event ends
\* the process afterwards
LaunchFailure(p) ==
  CASE p = "darwin" -> [threw |-> FALSE, session |-> FALSE]
    [] p = "win32"  -> [threw |-> TRUE, session |-> FALSE]
    [] OTHER        -> [threw |-> TRUE, session |-> TRUE]

\* UPDATE projects SET task_count = task_count + 1 WHERE path = ?
CountSpawn(n, hasRow) == IF hasRow THEN n + 1 ELSE n

\* spawnTask: worktree, row, task_count + 1, context files in the workspace
\* (createTaskContext leaves untracked files, so the workspace starts
\* dirty), session launch; nothing is undone when a later step throws
Spawn(t, base, s, how, fail) ==
  LET added     == fail # "add"
      persisted == fail \notin {"add", "insert"}
      session   == IF fail = "none" THEN LaunchHandle(platform)
                   ELSE fail = "launch" /\ LaunchFailure(platform).session
      threw     == IF fail = "none" THEN FALSE
                   ELSE fail = "launch" => LaunchFailure(platform).threw
  IN
  /\ NextId(t)
  /\ s <= t
  /\ refs[base].exists
  /\ inv[t].pc = "idle"
  /\ how = "name" => registered
  /\ NameTaken(s) <=> fail = "add"
  /\ fail \in {"insert", "validate", "launch"} => faults < MaxFaults
  /\ faults' = IF fail \in {"insert", "validate", "launch"}
                 THEN faults + 1 ELSE faults
  /\ registered' = (registered \/ how = "cwd")
  /\ defaultBranch' = IF how = "cwd" THEN head["proj"] ELSE defaultBranch
  /\ refs' = IF added THEN WorktreeAdd(refs, t, base) ELSE refs
  /\ ws' = IF added
             THEN [ws EXCEPT ![t] = [NoWs EXCEPT !.exists = TRUE,
                                                 !.linked = TRUE,
                                                 !.dirty = persisted]]
             ELSE ws
  /\ stamp' = IF added THEN [stamp EXCEPT ![t] = s] ELSE stamp
  /\ tasks' = IF persisted
                THEN [tasks EXCEPT ![t] = [NoRow EXCEPT !.status = "active",
                                                        !.baseBranch = base,
                                                        !.session = session,
                                                        !.id = IdOf(t),
                                                        !.name = Slug]]
                ELSE tasks
  /\ taskCount' = IF persisted THEN CountSpawn(taskCount, registered')
                  ELSE taskCount
  /\ last' = [Ran("spawn") EXCEPT !.task = t, !.fail = fail, !.threw = threw]
  /\ UNCHANGED <<remote, head, locLocal, autoMerge, inv, succeeded, ops, tree,
                 platform>>

\* ------------------------------------------- the session in a workspace
\* The assistant session works inside its own workspace only, and not while
\* an integration of its task is in flight.
SessionReady(t) ==
  /\ tasks[t].status # "none"
  /\ ws[t].exists
  /\ ~ws[t].conflict
  /\ inv[t].pc = "idle"

\* The session finishes: it commits its work and the completion marker
\* .claude-o/*.task_complete, and may leave a local-only file behind.
\* excludeLocalFiles appends to <worktree>/.git/info/exclude, but .git is a
\* file in a linked worktree: the append fails and is swallowed, so a
\* local-only file is untracked and the workspace with one is dirty.
SessionFinish(t, v) ==
  /\ SessionReady(t)
  /\ ~ws[t].marker
  /\ refs' = [refs EXCEPT ![BranchOf(t)].tip = @ \cup {Work(t)}]
  /\ ws' = [ws EXCEPT ![t].marker = TRUE, ![t].local = v,
                      ![t].dirty = (v # "none")]
  /\ last' = NoCall
  /\ UNCHANGED <<tasks, taskCount, remote, head, locLocal, autoMerge, inv,
                 succeeded, faults, ops, stamp, registered, tree, platform,
                 defaultBranch>>

\* the user follows the printed hint: resolve, git add, git rebase --continue
ResolveConflict(t) ==
  /\ ws[t].exists
  /\ ws[t].conflict
  /\ inv[t].pc = "idle"
  /\ refs[tasks[t].baseBranch].exists
  /\ refs' = [refs EXCEPT ![BranchOf(t)].tip =
                            refs[tasks[t].baseBranch].tip \cup @]
  /\ ws' = [ws EXCEPT ![t].conflict = FALSE, ![t].dirty = FALSE]
  /\ last' = NoCall
  /\ UNCHANGED <<tasks, taskCount, remote, head, locLocal, autoMerge, inv,
                 succeeded, faults, ops, stamp, registered, tree, platform,
                 defaultBranch>>

\* ------------------------------------------------------------ mergeTask
\* A configuration is what one mergeTask invocation reads and writes (the
\* tasks table, the references, the workspaces, the local-only files) and
\* its own frame f.  Each step maps a configuration to the set of
\* configurations the external commands of that step can leave.
World(f) ==
  [tasks |-> tasks, refs |-> refs, ws |-> ws, loc |-> locLocal,
   tree |-> tree, faults |-> faults, f |-> f]

\* entry of mergeTask(task), called by `via` from working directory cwd
EnterFrame(t, via, cwd) ==
  [IdleFrame EXCEPT !.t = t, !.pc = "begin", !.via = via, !.cwd = cwd]

Enter(t, via, cwd) == World(EnterFrame(t, via, cwd))

\* `return false`, directly or from the catch block
Failed(c) == [c EXCEPT !.f.pc = "done", !.f.result = FALSE]

\* the same after an external command failed for an outside reason
Fault(c) ==
  IF c.faults < MaxFaults THEN {Failed([c EXCEPT !.faults = @ + 1])} ELSE {}

\* git add -A && git commit -m "fix: <taskName>": the uncommitted changes of
\* the workspace become a commit on the task branch
AutoCommitNothing(r, t) == r

AutoCommit(r, t) == [r EXCEPT ![BranchOf(t)].tip = @ \cup {Work(t)}]

\* preflight, backup of the local-only files, auto-commit of stray changes
\* (with a rebase in progress the commit lands on the detached HEAD and the
\* branch is left as it is)
StepBegin(c) ==
  LET t == c.f.t
      w == c.ws[t]
      g == [c EXCEPT !.f.backup = w.local]
  IN
  IF ~w.exists THEN {Failed(c)}
  ELSE IF w.dirty /\ ~w.conflict
    THEN {[g EXCEPT !.refs = AutoCommit(@, t), !.ws[t].dirty = FALSE,
                    !.f.pc = "fetch"]}
         \cup Fault(g)
    ELSE {[g EXCEPT !.f.pc = "fetch"]}

\* git update-ref refs/heads/<baseBranch> FETCH_HEAD
UpdateRefToFetchHead(r, base, fetched) ==
  [r EXCEPT ![base] = [exists |-> TRUE, tip |-> fetched]]

\* git fetch origin <baseBranch>, then update-ref; any failure is swallowed
StepFetch(c) ==
  LET b == c.tasks[c.f.t].baseBranch IN
  {[c EXCEPT !.f.pc = "rebase"]}
  \cup
  (IF remote.exists /\ b = "main"
     THEN {[c EXCEPT !.refs = UpdateRefToFetchHead(@, b, remote.tip),
                     !.f.pc = "rebase"]}
     ELSE {})

\* result of replaying the task branch onto the base branch
RebaseDropsWork(tip, base) == base

Rebase(tip, base) == base \cup tip

\* a replay can conflict only when both sides have changes of their own
CanConflict(tip, base) == tip \ base # {} /\ base \ tip # {}

\* git -C <worktree> rebase <baseBranch>
StepRebase(c) ==
  LET t    == c.f.t
      b    == c.tasks[t].baseBranch
      tip  == c.refs[BranchOf(t)].tip
      base == c.refs[b].tip
      bad  == \/ c.ws[t].conflict
              \/ ~c.refs[b].exists
              \/ ~c.refs[BranchOf(t)].exists
  IN
  (IF bad THEN {}
   ELSE {[c EXCEPT !.refs[BranchOf(t)].tip = Rebase(tip, base),
                   !.f.pc = "ff"]})
  \cup
  (IF bad \/ CanConflict(tip, base)
     THEN {Failed([c EXCEPT !.ws[t].conflict = TRUE])}
     ELSE {})

\* git worktree list --porcelain: where the base branch is checked out,
\* the main project path when nowhere
LocateBaseDefault(h, base) == "proj"

LocateBase(h, base) ==
  IF \E l \in Locations : h[l] = base
    THEN CHOOSE l \in Locations : h[l] = base
    ELSE "proj"

\* git reset --hard <branch> in the checkout of the base branch, or
\* git branch -f <baseBranch> <branch>: the base reference is set to the tip
ForceUpdate(r, base, branch) ==
  [r EXCEPT ![base] = [exists |-> TRUE, tip |-> r[branch].tip]]

\* isBaseBranchCheckedOut: git reset --hard <branch> runs in the location
\* that has the base branch checked out and rewrites the files there;
\* git branch -f touches no checkout
ResetHard(tr, h, loc, base, tip) ==
  IF h[loc] = base THEN [tr EXCEPT ![loc] = tip] ELSE tr

\* the task whose branch is the base branch, 0 when the base branch is not a
\* task branch
BaseTask(b) ==
  IF b \in TaskBranches THEN CHOOSE u \in Tasks : BranchOf(u) = b ELSE 0

\* git worktree list names the workspace of task u as the place where the
\* base branch is checked out
InWorkspace(w, u) == u # 0 /\ w[u].linked

\* the update of the base branch. When the base branch is the branch of
\* another task, it is checked out in that task's workspace: git reset --hard
\* runs there and drops the uncommitted changes of that workspace; with the
\* directory gone or a rebase in progress there the update fails
StepFastForward(c) ==
  LET t == c.f.t
      b == c.tasks[t].baseBranch
      u == BaseTask(b)
      g == [c EXCEPT !.refs = ForceUpdate(@, b, BranchOf(t)),
                     !.tree = ResetHard(@, head, LocateBase(head, b), b,
                                        c.refs[BranchOf(t)].tip),
                     !.f.pc = "teardown",
                     !.f.updated = TRUE,
                     !.f.baseLoc = LocateBase(head, b),
                     !.f.ffFrom = c.refs[b].tip,
                     !.f.ffTo = c.refs[BranchOf(t)].tip]
  IN
  IF ~c.refs[BranchOf(t)].exists THEN {Failed(c)}
  ELSE IF InWorkspace(c.ws, u)
    THEN IF ~c.ws[u].exists \/ c.ws[u].conflict THEN {Failed(c)}
         ELSE {[g EXCEPT !.ws[u].dirty = FALSE]} \cup Fault(c)
    ELSE {g} \cup Fault(c)

\* backups.forEach: a backed-up file is written at the base location, a file
\* the workspace did not have is unlinked there
RestoreLocal(backup, current) == backup

\* git worktree remove <worktreePath>
WorktreeRemoveSkipped(w, t) == w

WorktreeRemove(w, t) == [w EXCEPT ![t] = NoWs]

\* restore of the local-only files, then removal of the workspace
StepTeardown(c) ==
  LET t == c.f.t
      u == BaseTask(c.tasks[t].baseBranch)
      g == IF InWorkspace(c.ws, u)
             THEN [c EXCEPT !.ws[u].local = RestoreLocal(c.f.backup, @)]
             ELSE [c EXCEPT !.loc[c.f.baseLoc] = RestoreLocal(c.f.backup, @)]
  IN
  {[g EXCEPT !.ws = WorktreeRemove(@, t), !.f.pc = "db"]} \cup Fault(g)

\* UPDATE tasks SET status = 'merged', completed_at = ?, merged_at = ?
\* WHERE id = ?
MarkMergedSkipped(row) == row

MarkMerged(row) ==
  IF row.status \in {"none", "deleted"}
    THEN row
    ELSE [row EXCEPT !.status = "merged", !.completedAt = TRUE,
                     !.mergedAt = TRUE]

\* process.chdir(dir) throws when the directory no longer exists
ChdirOk(cwd, w) ==
  \A t \in Tasks : cwd = BranchOf(t) => w[t].exists

\* the row is updated; then process.chdir(originalCwd) and logTask, where an
\* exception ends in the catch block
StepCommitState(c) ==
  LET g == [c EXCEPT !.tasks[c.f.t] = MarkMerged(@)] IN
  IF ChdirOk(c.f.cwd, c.ws)
    THEN {[g EXCEPT !.f.pc = "done", !.f.result = TRUE]} \cup Fault(g)
    ELSE {Failed(g)}

\* the step at the frame's position
Step(c) ==
  CASE c.f.pc = "begin"    -> StepBegin(c)
    [] c.f.pc = "fetch"    -> StepFetch(c)
    [] c.f.pc = "rebase"   -> StepRebase(c)
    [] c.f.pc = "ff"       -> StepFastForward(c)
    [] c.f.pc = "teardown" -> StepTeardown(c)
    [] c.f.pc = "db"       -> StepCommitState(c)
    [] OTHER               -> {c}

\* mergeTask from entry to return: at most six steps
Advance(S) == UNION {Step(c) : c \in S}

MergeTask(c) == Advance(Advance(Advance(Advance(Advance(Advance({c}))))))

\* the working directory of the process when mergeTask has returned:
\* process.chdir(originalCwd) where the directory still exists, else the
\* project path entered before git worktree remove
CwdAfter(c) == IF ChdirOk(c.f.cwd, c.ws) THEN c.f.cwd ELSE "proj"

\* what the caller of a returned invocation sees
Summary(c) == [t |-> c.f.t, result |-> c.f.result, updated |-> c.f.updated]

Succeeded(calls) == {calls[i].t : i \in {j \in DOMAIN calls : calls[j].result}}

\* ------------------------------------------------ lifecycle operations
\* a command can only be started in a directory that exists
CwdExists(cwd) == ChdirOk(cwd, ws)

NoneInFlight == \A t \in Tasks : inv[t].pc = "idle"

\* a command of the sequential specification starts
Command ==
  /\ NoneInFlight
  /\ ops < MaxOps
  /\ ops' = ops + 1
  /\ registered' = TRUE   \* detectProject registers the project
  /\ defaultBranch' = head["proj"]
  /\ UNCHANGED <<stamp, platform>>

\* status filter of the task lookup of manualMerge
MergeStatusesAny == {"active", "completed", "merged"}

MergeStatuses == {"active", "completed"}

\* status filter of the task lookup of closeTask and of killTask
CloseStatusesAny == {"active", "completed", "merged"}

CloseStatuses == {"active"}

KillStatusesAny == {"active", "completed", "merged"}

KillStatuses == {"active"}

\* manualMerge: the key resolves to a task with status active or completed
ManualMerge(t, cwd) ==
  /\ Command
  /\ tasks[t].status \in MergeStatuses
  /\ CwdExists(cwd)
  /\ \E c \in MergeTask(Enter(t, "merge", cwd)) :
       /\ tasks' = c.tasks
       /\ refs' = c.refs
       /\ ws' = c.ws
       /\ locLocal' = c.loc
       /\ tree' = c.tree
       /\ faults' = c.faults
       /\ last' = [Ran("merge") EXCEPT !.calls = <<Summary(c)>>, !.task = t]
       /\ succeeded' = succeeded \cup Succeeded(<<Summary(c)>>)
  /\ UNCHANGED <<taskCount, remote, head, autoMerge, inv>>

\* manualMerge in a process whose working directory has been removed:
\* detectProject fails and is caught, the task is found among all projects,
\* and process.cwd() in the first line of mergeTask, before its try, throws
MergeCwdGone(t, cwd) ==
  /\ NoneInFlight
  /\ ops < MaxOps
  /\ ops' = ops + 1
  /\ tasks[t].status \in MergeStatuses
  /\ ~CwdExists(cwd)
  /\ last' = [Ran("merge") EXCEPT !.task = t, !.fail = "cwd", !.threw = TRUE]
  /\ UNCHANGED <<tasks, taskCount, refs, remote, ws, head, locLocal,
                 autoMerge, inv, succeeded, faults, tree, stamp, registered,
                 platform,
                 defaultBranch>>

\* manualMerge with the id of a row that the lookup filters out: "Task not
\* found", return
MergeNotFound(t, cwd) ==
  /\ Command
  /\ tasks[t].status \in {"active", "completed", "merged"} \ MergeStatuses
  /\ CwdExists(cwd)
  /\ last' = [Ran("merge") EXCEPT !.task = t, !.fail = "notfound"]
  /\ UNCHANGED <<tasks, taskCount, refs, remote, ws, head, locLocal,
                 autoMerge, inv, succeeded, faults, tree>>

\* rows of the query `status = 'active'`, in insertion order
RECURSIVE ActiveFrom(_)
ActiveFrom(t) ==
  IF t > NumTasks THEN <<>>
  ELSE IF tasks[t].status = "active" THEN <<t>> \o ActiveFrom(t + 1)
  ELSE ActiveFrom(t + 1)

\* a .task_complete file under .claude-o, or the legacy top-level marker
IsComplete(w) == w.exists /\ w.marker

\* the body of activeTasks.forEach for task t; r is the run so far: the
\* configuration, the process's working directory and the results
CheckBody(t, r) ==
  IF ~IsComplete(r.c.ws[t]) THEN {r}
  ELSE IF ~autoMerge THEN {[r EXCEPT !.completed = @ + 1]}
  ELSE {[c         |-> [d EXCEPT !.f = IdleFrame],
         cwd       |-> IF ChdirOk(r.cwd, d.ws) THEN r.cwd ELSE "proj",
         calls     |-> Append(r.calls, Summary(d)),
         completed |-> r.completed + 1,
         merged    |-> IF d.f.result THEN r.merged + 1 ELSE r.merged] :
        d \in MergeTask([r.c EXCEPT !.f = EnterFrame(t, "check", r.cwd)])}

RECURSIVE CheckLoop(_, _)
CheckLoop(q, R) ==
  IF q = <<>> THEN R
  ELSE CheckLoop(Tail(q), UNION {CheckBody(Head(q), r) : r \in R})

\* checkProjectTasks: the active tasks are read once, then visited in order
CheckProjectTasks(cwd) ==
  /\ Command
  /\ CwdExists(cwd)
  /\ LET q  == ActiveFrom(1)
         r0 == [c |-> World(IdleFrame), cwd |-> cwd, calls |-> <<>>,
                completed |-> 0, merged |-> 0]
     IN
     \E r \in CheckLoop(q, {r0}) :
       /\ tasks' = r.c.tasks
       /\ refs' = r.c.refs
       /\ ws' = r.c.ws
       /\ locLocal' = r.c.loc
       /\ tree' = r.c.tree
       /\ faults' = r.c.faults
       /\ last' = [Ran("check") EXCEPT !.calls = r.calls,
                                        !.checked = Len(q),
                                        !.completed = r.completed,
                                        !.merged = r.merged,
                                        !.again = (last.op = "check")]
       /\ succeeded' = succeeded \cup Succeeded(r.calls)
  /\ UNCHANGED <<taskCount, remote, head, autoMerge, inv>>

\* closeTask: UPDATE tasks SET status = 'completed', completed_at = ?
MarkCompletedUnstamped(row) == [row EXCEPT !.status = "completed"]

MarkCompleted(row) == [row EXCEPT !.status = "completed", !.completedAt = TRUE]

CloseTask(t) ==
  /\ Command
  /\ tasks[t].status \in CloseStatuses
  /\ tasks' = [tasks EXCEPT ![t] = MarkCompleted(@)]
  /\ last' = [Ran("close") EXCEPT !.task = t]
  /\ UNCHANGED <<taskCount, refs, remote, ws, head, locLocal, autoMerge,
                 inv, succeeded, faults, tree>>

\* DELETE FROM tasks WHERE id = ?
DeleteRow(row) == [row EXCEPT !.status = "deleted"]

\* git branch -D <branch>: refused while a registered worktree has the branch
\* checked out, whether or not its directory is still there
DeleteBranch(r, t, w) ==
  IF w[t].linked THEN r ELSE [r EXCEPT ![BranchOf(t)].exists = FALSE]

\* if (fs.existsSync(worktreePath)): git worktree remove --force, else rm -rf
\* and prune, for the tasks in S; a missing directory is skipped, and the
\* tasks in F are those whose removal fails both ways
RemoveWorkspaces(S, F) ==
  [t \in Tasks |-> IF t \in S \ F /\ ws[t].exists THEN NoWs ELSE ws[t]]

\* git worktree prune: forgets the worktrees whose directory is gone
Prune(w) ==
  [t \in Tasks |-> IF w[t].exists THEN w[t] ELSE [w[t] EXCEPT !.linked = FALSE]]

\* uniqueProjects.forEach: git worktree prune in each project of P
PruneProjects(w, P) ==
  [t \in Tasks |-> IF tasks[t].project \in P THEN Prune(w)[t] ELSE w[t]]

\* the workspace directory is deleted by hand, outside the orchestrator: git
\* still lists the worktree
RemoveOutside(t) ==
  /\ NoneInFlight
  /\ ws[t].exists
  /\ ws' = [ws EXCEPT ![t] = [NoWs EXCEPT !.linked = TRUE]]
  /\ last' = NoCall
  /\ UNCHANGED <<tasks, taskCount, refs, remote, head, locLocal, autoMerge,
                 inv, succeeded, faults, ops, stamp, registered, tree,
                 platform,
                 defaultBranch>>

RECURSIVE DeleteBranches(_, _, _)
DeleteBranches(r, S, w) ==
  IF S = {} THEN r
  ELSE LET t == CHOOSE x \in S : TRUE IN
       DeleteBranches(DeleteBranch(r, t, w), S \ {t}, w)

\* killTask: the key resolves to an active task; a failed cleanup is printed
\* and the row is deleted all the same
KillTask(t, removed) ==
  /\ Command
  /\ tasks[t].status \in KillStatuses
  /\ removed \/ (ws[t].exists /\ faults < MaxFaults)
  /\ faults' = IF removed THEN faults ELSE faults + 1
  /\ LET F == IF removed THEN {} ELSE {t} IN
     /\ ws' = RemoveWorkspaces({t}, F)
     /\ refs' = DeleteBranches(refs, {t}, ws')
  /\ tasks' = [tasks EXCEPT ![t] = DeleteRow(@)]
  /\ taskCount' = taskCount - 1
  /\ last' = [Ran("kill") EXCEPT !.task = t]
  /\ UNCHANGED <<remote, head, locLocal, autoMerge, inv, succeeded, tree>>

\* killTask on a key whose only matches are not active: "Task not found"
KillNotFound(t) ==
  /\ Command
  /\ tasks[t].status \in {"completed", "merged"}
  /\ last' = [Ran("kill") EXCEPT !.task = t, !.fail = "notfound"]
  /\ UNCHANGED <<tasks, taskCount, refs, remote, ws, head, locLocal,
                 autoMerge, inv, succeeded, faults, tree>>

Stored(S) == {t \in Tasks : tasks[t].status \in S}

\* the loop shared by nuke and clean over the rows S: a task whose workspace
\* cannot be removed (F) is counted as failed and keeps its row
EraseRows(S, F, pruned) ==
  /\ S # {}
  /\ F \subseteq {t \in S : ws[t].exists}
  /\ faults + Cardinality(F) <= MaxFaults
  /\ faults' = faults + Cardinality(F)
  /\ LET w == RemoveWorkspaces(S, F) IN
     /\ refs' = DeleteBranches(refs, S \ F, w)
     /\ ws' = IF pruned
                THEN PruneProjects(w, {tasks[t].project : t \in S})
                ELSE w
  /\ tasks' = [t \in Tasks |-> IF t \in S \ F THEN DeleteRow(tasks[t])
                               ELSE tasks[t]]

\* nukeAllTasks: every row of the project; task_count is set to 0
NukeAllTasks(F) ==
  /\ Command
  /\ EraseRows(Stored({"active", "completed", "merged"}), F, FALSE)
  /\ taskCount' = 0
  /\ last' = Ran("nuke")
  /\ UNCHANGED <<remote, head, locLocal, autoMerge, inv, succeeded, tree>>

\* status filter of cleanCompletedTasks
CleanStatusesAny == {"active", "completed", "merged"}

CleanStatuses == {"completed", "merged"}

\* the rows cleanCompletedTasks selects: scope is "all" or a project
InScope(scope) ==
  {t \in Stored(CleanStatuses) : scope = "all" \/ tasks[t].project = scope}

\* cleanCompletedTasks(scope): every completed or merged row of the scope,
\* and a git worktree prune after the loop
CleanScope(scope, F) ==
  /\ Command
  /\ EraseRows(InScope(scope), F, TRUE)
  /\ last' = [Ran("clean") EXCEPT !.scope = scope]
  /\ UNCHANGED <<taskCount, remote, head, locLocal, autoMerge, inv, succeeded,
                 tree>>

\* clean in the current project
CleanCompletedTasks(F) ==
  /\ Command
  /\ EraseRows(InScope("proj"), F, TRUE)
  /\ last' = [Ran("clean") EXCEPT !.scope = "proj"]
  /\ UNCHANGED <<taskCount, remote, head, locLocal, autoMerge, inv, succeeded,
                 tree>>

Next ==
  \/ \E t \in Tasks : Spawn(t, "main", t, "cwd", "none")
  \/ \E t \in Tasks : \E v \in {"none", BranchOf(t)} : SessionFinish(t, v)
  \/ \E t \in Tasks : ResolveConflict(t)
  \/ \E t \in Tasks : \E cwd \in {"proj", BranchOf(t)} : ManualMerge(t, cwd)
  \/ \E t \in Tasks : MergeNotFound(t, "proj")
  \/ \E t \in Tasks, cwd \in TaskBranches : MergeCwdGone(t, cwd)
  \/ \E cwd \in Cwds : CheckProjectTasks(cwd)
  \/ \E t \in Tasks : CloseTask(t)
  \/ \E t \in Tasks, removed \in BOOLEAN : KillTask(t, removed)
  \/ \E F \in SUBSET Tasks : NukeAllTasks(F)
  \/ \E F \in SUBSET Tasks : CleanCompletedTasks(F)

Spec == Init /\ [][Next]_vars

\* ------------------------------------------- interleaved invocations
\* `co merge` processes on different tasks run side by side: nothing but
\* the tasks table and the repository is shared between them.
BeginMerge(t, cwd) ==
  /\ inv[t].pc = "idle"
  /\ ops < MaxOps
  /\ tasks[t].status \in MergeStatuses
  /\ CwdExists(cwd)
  /\ inv' = [inv EXCEPT ![t] = EnterFrame(t, "merge", cwd)]
  /\ ops' = ops + 1
  /\ registered' = TRUE
  /\ defaultBranch' = head["proj"]
  /\ last' = NoCall
  /\ UNCHANGED <<tasks, taskCount, refs, remote, ws, head, locLocal,
                 autoMerge, succeeded, faults, stamp, tree, platform>>

\* the next step of the invocation in flight on task t
MergeStep(t) ==
  /\ inv[t].pc # "idle"
  /\ \E c \in Step(World(inv[t])) :
       /\ tasks' = c.tasks
       /\ refs' = c.refs
       /\ ws' = c.ws
       /\ locLocal' = c.loc
       /\ tree' = c.tree
       /\ faults' = c.faults
       /\ IF c.f.pc = "done"
            THEN /\ inv' = [inv EXCEPT ![t] = IdleFrame]
                 /\ last' = [Ran("merge") EXCEPT !.calls = <<Summary(c)>>,
                                                  !.task = t]
                 /\ succeeded' = succeeded \cup Succeeded(<<Summary(c)>>)
            ELSE /\ inv' = [inv EXCEPT ![t] = c.f]
                 /\ last' = NoCall
                 /\ UNCHANGED succeeded
  /\ UNCHANGED <<taskCount, remote, head, autoMerge, ops, stamp, registered,
                 platform,
                 defaultBranch>>

InitInterleaved == Init /\ ~remote.exists /\ autoMerge

NextInterleaved ==
  \/ \E t \in Tasks : Spawn(t, "main", t, "cwd", "none")
  \/ \E t \in Tasks : SessionFinish(t, "none")
  \/ \E t \in Tasks : \E cwd \in {"proj", BranchOf(t)} : BeginMerge(t, cwd)
  \/ \E t \in Tasks : MergeStep(t)

SpecInterleaved == InitInterleaved /\ [][NextInterleaved]_vars

\* ------------------------------------------------- spawn in every way
\* spawnTask with every resolution of the project, every timestamp and every
\* point of failure, on each platform; merge and kill in between, which
\* remove workspaces, branches and rows.
InitSpawn ==
  /\ tasks = [t \in Tasks |-> NoRow]
  /\ taskCount = 0
  /\ refs = [b \in Branches |->
               [exists |-> b \in BaseBranches, tip |-> {}]]
  /\ remote = [exists |-> FALSE, tip |-> {}]
  /\ ws = [t \in Tasks |-> NoWs]
  /\ head = DefaultHead
  /\ locLocal = [l \in Locations |->
                    IF head[l] = "none" THEN "none" ELSE "own"]
  /\ autoMerge = TRUE
  /\ platform \in Platforms
  /\ stamp = [t \in Tasks |-> 0]
  /\ registered \in BOOLEAN
  /\ tree = [l \in Locations |-> {}]
  /\ inv = [t \in Tasks |-> IdleFrame]
  /\ succeeded = {}
  /\ last = NoCall
  /\ faults = 0
  /\ ops = 0
  /\ defaultBranch = IF registered THEN head["proj"] ELSE "none"

\* the user checks out another branch at the project path; the next
\* detectProject records it as the project's default branch
SwitchBranch(b) ==
  /\ NoneInFlight
  /\ refs[b].exists
  /\ \A l \in Locations : head[l] # b
  /\ head' = [head EXCEPT !["proj"] = b]
  /\ tree' = [tree EXCEPT !["proj"] = refs[b].tip]
  /\ last' = NoCall
  /\ UNCHANGED <<tasks, taskCount, refs, remote, ws, locLocal, autoMerge,
                 inv, succeeded, faults, ops, stamp, registered, platform,
                 defaultBranch>>

\* options.baseBranch || project.defaultBranch: a spawn from inside the
\* repository takes the branch checked out there, the others name the
\* integration branch
SpawnBase(how) == IF how = "cwd" THEN head["proj"] ELSE "main"

NextSpawn ==
  \/ \E t \in Tasks, s \in Stamps, how \in Resolutions, fail \in SpawnFailures :
       Spawn(t, SpawnBase(how), s, how, fail)
  \/ \E b \in BaseBranches : SwitchBranch(b)
  \/ \E t \in Tasks : ManualMerge(t, "proj")
  \/ \E t \in Tasks, removed \in BOOLEAN : KillTask(t, removed)

SpecSpawn == InitSpawn /\ [][NextSpawn]_vars

\* ---- the merge-commit variant of mergeTask ----

\* what one invocation of the variant leaves, and whether it returned true
Outcome ==
  [tasks |-> tasks, refs |-> refs, ws |-> ws, tree |-> tree, head |-> head,
   faults |-> faults, result |-> FALSE, updated |-> FALSE]

\* an external command of the variant fails for an outside reason: the
\* exception ends in the catch block, which returns false
Thrown(o) == IF o.faults < MaxFaults THEN {[o EXCEPT !.faults = @ + 1]} ELSE {}

\* git checkout <branch> at location loc
Checkout(o, loc, branch) ==
  [o EXCEPT !.head[loc] = branch, !.tree[loc] = o.refs[branch].tip]

\* git merge --no-ff <branch> in the checkout of the base branch at loc
MergeNoFf(o, loc, base, branch) ==
  [o EXCEPT !.refs[base].tip = @ \cup o.refs[branch].tip,
            !.tree[loc] = o.refs[base].tip \cup o.refs[branch].tip,
            !.updated = TRUE]

\* the same merge stopping on a conflict: the files of both sides are in the
\* checkout, with conflict markers and MERGE_HEAD set; no commit is made
MergeConflict(o, loc, base, branch) ==
  [o EXCEPT !.tree[loc] = o.refs[base].tip \cup o.refs[branch].tip]

\* mergeTask, merge-commit variant, called from working directory cwd:
\* preflight, auto-commit, checkout of the base branch where it is checked
\* out (the project path when nowhere), git merge --no-ff, git worktree
\* remove, the row update, return to the original branch, chdir and log
MergeCommitTask(t, cwd) ==
  LET b == tasks[t].baseBranch
      br == BranchOf(t)
      loc == LocateBase(head, b)
      committed == IF ws[t].dirty
                     THEN [Outcome EXCEPT !.refs = AutoCommit(@, t),
                                          !.ws[t].dirty = FALSE]
                     ELSE Outcome
      switched == IF head[loc] = b THEN committed
                  ELSE Checkout(committed, loc, b)
      merged == MergeNoFf(switched, loc, b, br)
      removed == [merged EXCEPT !.ws = WorktreeRemove(@, t)]
      marked == [removed EXCEPT !.tasks[t] = MarkMerged(@)]
      returned == IF head["proj"] # b /\ loc = "proj"
                    THEN Checkout(marked, "proj", head["proj"])
                    ELSE marked
  IN
  IF ~ws[t].exists THEN {Outcome}
  ELSE IF ~refs[b].exists \/ ~refs[br].exists THEN {committed}
  ELSE (IF ws[t].dirty THEN Thrown(Outcome) ELSE {})
       \cup (IF CanConflict(committed.refs[br].tip, committed.refs[b].tip)
               THEN {MergeConflict(switched, loc, b, br)} ELSE {})
       \cup Thrown(switched)
       \cup Thrown(merged)
       \cup (IF ChdirOk(cwd, returned.ws)
               THEN {[returned EXCEPT !.result = TRUE]} \cup Thrown(returned)
               ELSE {returned})

\* manualMerge of the build with the merge-commit variant
ManualMergeCommit(t, cwd) ==
  /\ Command
  /\ tasks[t].status \in MergeStatuses
  /\ CwdExists(cwd)
  /\ \E o \in MergeCommitTask(t, cwd) :
       LET call == [t |-> t, result |-> o.result, updated |-> o.updated] IN
       /\ tasks' = o.tasks
       /\ refs' = o.refs
       /\ ws' = o.ws
       /\ tree' = o.tree
       /\ head' = o.head
       /\ faults' = o.faults
       /\ last' = [Ran("merge") EXCEPT !.calls = <<call>>, !.task = t,
                                       !.cmd = "merge-commit"]
       /\ succeeded' = succeeded \cup Succeeded(<<call>>)
  /\ UNCHANGED <<taskCount, remote, locLocal, autoMerge, inv>>

InitMergeCommit ==
  /\ tasks = [t \in Tasks |-> NoRow]
  /\ taskCount = 0
  /\ refs = [b \in Branches |->
               [exists |-> b \in BaseBranches, tip |-> {}]]
  /\ remote = [exists |-> FALSE, tip |-> {}]
  /\ ws = [t \in Tasks |-> NoWs]
  /\ head \in HeadConfigs
  /\ locLocal = [l \in Locations |->
                    IF head[l] = "none" THEN "none" ELSE "own"]
  /\ autoMerge = TRUE
  /\ platform = "linux"
  /\ stamp = [t \in Tasks |-> 0]
  /\ registered = FALSE
  /\ tree = [l \in Locations |-> {}]
  /\ inv = [t \in Tasks |-> IdleFrame]
  /\ succeeded = {}
  /\ last = NoCall
  /\ faults = 0
  /\ ops = 0
  /\ defaultBranch = "none"

NextMergeCommit ==
  \/ \E t \in Tasks : Spawn(t, "main", t, "cwd", "none")
  \/ \E t \in Tasks : \E v \in {"none", BranchOf(t)} : SessionFinish(t, v)
  \/ \E t \in Tasks : \E cwd \in {"proj", BranchOf(t)} :
       ManualMergeCommit(t, cwd)

SpecMergeCommit == InitMergeCommit /\ [][NextMergeCommit]_vars

\* ---- lookup of a task by name or id prefix ----

\* SQLite's LIKE: % matches any run of characters, _ any one character, and
\* ASCII letters match without regard to case
Lower(ch) == IF ch = "A" THEN "a" ELSE IF ch = "B" THEN "b" ELSE ch

RECURSIVE Like(_, _)
Like(str, pat) ==
  IF pat = <<>> THEN str = <<>>
  ELSE IF Head(pat) = "%"
         THEN \E k \in 0..Len(str) :
                Like(SubSeq(str, k + 1, Len(str)), Tail(pat))
         ELSE /\ str # <<>>
              /\ Head(pat) = "_" \/ Lower(Head(pat)) = Lower(Head(str))
              /\ Like(Tail(str), Tail(pat))

\* WHERE (task_name = ? OR id LIKE ?), bound to the key and to `${key}%`
KeyMatches(row, key) == row.name = key \/ Like(row.id, key \o <<"%">>)

Commands == {"send", "read", "merge", "close", "kill"}

\* the status filter of each command's lookup
LookupStatuses(cmd) ==
  CASE cmd = "merge" -> MergeStatuses
    [] cmd = "close" -> CloseStatuses
    [] cmd = "kill" -> KillStatuses
    [] OTHER -> {"active"}

Matches(cmd, key, scope) ==
  {t \in Tasks : /\ tasks[t].status \in LookupStatuses(cmd)
                 /\ KeyMatches(tasks[t], key)
                 /\ scope # "none" => tasks[t].project = scope}

\* ORDER BY created_at DESC LIMIT 1: rows are stored in the order of their
\* creation
Latest(S) == {t \in S : \A u \in S : u <= t}

\* .get() without ORDER BY: the first row of the table scan, in rowid order
AnyRow(S) == S

FirstRow(S) == {t \in S : \A u \in S : t <= u}

\* the lookup that opens send, read-output, merge, close and kill; scope is
\* the project the command runs in, "none" when it cannot be detected. The
\* lookup reads the store and writes nothing: it is applied to a store and
\* repeated once
Lookup(cmd, key, scope) ==
  LET found == Matches(cmd, key, scope)
      rows == IF found = {} THEN {0}
              ELSE IF scope = "none" THEN Latest(found) ELSE FirstRow(found)
  IN  /\ last.op = "lookup" =>
           /\ ~last.again
           /\ last.cmd = cmd /\ last.key = key /\ last.scope = scope
      /\ \E r \in rows :
           last' = [Ran("lookup") EXCEPT
                      !.cmd = cmd, !.key = key, !.scope = scope, !.task = r,
                      !.again = /\ last.op = "lookup"
                                /\ last.cmd = cmd
                                /\ last.key = key
                                /\ last.scope = scope]
      /\ UNCHANGED <<tasks, taskCount, refs, remote, ws, head, locLocal,
                     autoMerge, inv, succeeded, faults, ops, stamp,
                     registered, tree, platform,
                     defaultBranch>>

Names == {<<"a">>, <<"b", "b">>}

Keys == {<<"a">>, <<"a", "b">>, <<"b">>, <<"b", "b">>, <<"A">>, <<"%">>,
         <<"_", "b">>}

\* a store of tasks of two projects, in every status
InitLookup ==
  /\ tasks \in [Tasks -> {[NoRow EXCEPT !.status = st, !.id = i, !.name = n,
                                        !.project = p, !.completedAt = ca,
                                        !.mergedAt = ma] :
                             st \in {"active", "completed", "merged"},
                             ca \in BOOLEAN, ma \in BOOLEAN,
                             i \in {IdOf(t) : t \in Tasks},
                             n \in Names, p \in Projects}]
  /\ \A t \in Tasks : /\ tasks[t].id = IdOf(t)
                       /\ tasks[t].completedAt = (tasks[t].status # "active")
                       /\ tasks[t].mergedAt = (tasks[t].status = "merged")
  /\ taskCount = NumTasks
  /\ refs = [b \in Branches |-> [exists |-> TRUE, tip |-> {}]]
  /\ remote = [exists |-> FALSE, tip |-> {}]
  /\ ws = [t \in Tasks |-> IF tasks[t].status = "merged" THEN NoWs
                            ELSE [NoWs EXCEPT !.exists = TRUE,
                                              !.linked = TRUE]]
  /\ head = DefaultHead
  /\ locLocal = [l \in Locations |->
                    IF head[l] = "none" THEN "none" ELSE "own"]
  /\ autoMerge = TRUE
  /\ platform = "linux"
  /\ stamp = [t \in Tasks |-> t]
  /\ registered = TRUE
  /\ tree = [l \in Locations |-> {}]
  /\ inv = [t \in Tasks |-> IdleFrame]
  /\ succeeded = {}
  /\ last = NoCall
  /\ faults = 0
  /\ ops = 0
  /\ defaultBranch = head["proj"]

NextLookup ==
  \E cmd \in Commands, key \in Keys, scope \in {"none"} \cup Projects :
    Lookup(cmd, key, scope)

SpecLookup == InitLookup /\ [][NextLookup]_vars

\* ---- uncommitted changes in the checkout of the base branch ----

\* a modification of a tracked file that has not been committed
LocalEdit == <<0, "edit">>

\* the user edits a tracked file in the checkout at location l
EditBase(l) ==
  /\ NoneInFlight
  /\ head[l] # "none"
  /\ LocalEdit \notin tree[l]
  /\ tree' = [tree EXCEPT ![l] = @ \cup {LocalEdit}]
  /\ last' = NoCall
  /\ UNCHANGED <<tasks, taskCount, refs, remote, ws, head, locLocal,
                 autoMerge, inv, succeeded, faults, ops, stamp, registered,
                 platform, defaultBranch>>

NextBaseEdits ==
  \/ \E t \in Tasks : Spawn(t, "main", t, "cwd", "none")
  \/ \E t \in Tasks : \E v \in {"none", BranchOf(t)} : SessionFinish(t, v)
  \/ \E l \in Locations : EditBase(l)
  \/ \E t \in Tasks : \E cwd \in {"proj", BranchOf(t)} : ManualMerge(t, cwd)

SpecBaseEdits == InitMergeCommit /\ [][NextBaseEdits]_vars

\* clean over a store that holds tasks of two projects
NextClean ==
  \/ \E scope \in {"all"} \cup Projects, F \in SUBSET Tasks :
       CleanScope(scope, F)
  \/ \E t \in Tasks : RemoveOutside(t)

SpecClean == InitLookup /\ [][NextClean]_vars

\* deletion: the workspace directory may have been removed by hand, and kill
\* may be given the key of a task that is no longer active
InitKill ==
  /\ tasks = [t \in Tasks |-> NoRow]
  /\ taskCount = 0
  /\ refs = [b \in Branches |->
               [exists |-> b \in BaseBranches, tip |-> {}]]
  /\ remote = [exists |-> FALSE, tip |-> {}]
  /\ ws = [t \in Tasks |-> NoWs]
  /\ head = DefaultHead
  /\ locLocal = [l \in Locations |->
                    IF head[l] = "none" THEN "none" ELSE "own"]
  /\ autoMerge = TRUE
  /\ platform = "linux"
  /\ stamp = [t \in Tasks |-> 0]
  /\ registered = FALSE
  /\ tree = [l \in Locations |-> {}]
  /\ inv = [t \in Tasks |-> IdleFrame]
  /\ succeeded = {}
  /\ last = NoCall
  /\ faults = 0
  /\ ops = 0
  /\ defaultBranch = "none"

NextKill ==
  \/ \E t \in Tasks : Spawn(t, "main", t, "cwd", "none")
  \/ \E t \in Tasks : RemoveOutside(t)
  \/ \E t \in Tasks : ManualMerge(t, "proj")
  \/ \E t \in Tasks : CloseTask(t)
  \/ \E t \in Tasks, removed \in BOOLEAN : KillTask(t, removed)
  \/ \E t \in Tasks : KillNotFound(t)
  \/ \E F \in SUBSET Tasks : NukeAllTasks(F)
  \/ \E F \in SUBSET Tasks : CleanCompletedTasks(F)

SpecKill == InitKill /\ [][NextKill]_vars

\* ---- tasks stacked on the branch of another task ----

\* spawn with options.baseBranch naming the branch of task u
NextStacked ==
  \/ \E t \in Tasks : Spawn(t, "main", t, "cwd", "none")
  \/ \E t \in Tasks : \E u \in Tasks \ {t} :
       Spawn(t, BranchOf(u), t, "cwd", "none")
  \/ \E t \in Tasks : \E v \in {"none", BranchOf(t)} : SessionFinish(t, v)
  \/ \E t \in Tasks : ManualMerge(t, "proj")
  \/ \E t \in Tasks : CloseTask(t)
  \/ \E t \in Tasks, removed \in BOOLEAN : KillTask(t, removed)

SpecStacked == InitKill /\ [][NextStacked]_vars

\* ------------------------------------------------------------- properties
\* C1: when a mergeTask invocation returns false, the stored status of its
\* task is what it was before the invocation, whatever the caller's working
\* directory and whether it came from merge or from a check.
C1_FailureKeepsStatus ==
  [][\A i \in DOMAIN last'.calls :
       ~last'.calls[i].result =>
         tasks'[last'.calls[i].t].status = tasks[last'.calls[i].t].status]_vars

\* C2: when a mergeTask invocation returns false, the work of its task has
\* not become reachable from the base branch.
C2_FailureKeepsBase ==
  [][\A i \in DOMAIN last'.calls :
       LET t == last'.calls[i].t
           b == tasks[t].baseBranch
       IN ~last'.calls[i].result =>
            (Work(t) \in refs'[b].tip => Work(t) \in refs[b].tip)]_vars

\* C3: in every reachable state the work of every merged task is reachable
\* from its base branch.
C3_MergedWorkStays ==
  \A t \in Tasks :
    tasks[t].status = "merged" => Work(t) \in refs[tasks[t].baseBranch].tip

\* C4: when interleaved invocations on two different tasks with the same
\* base branch have both returned true, the base branch holds the work of
\* both.
C4_BothIntegrated ==
  \A t \in succeeded : \A u \in succeeded :
    (t # u /\ tasks[t].baseBranch = tasks[u].baseBranch) =>
      {Work(t), Work(u)} \subseteq refs[tasks[t].baseBranch].tip

\* C5: an invocation that returns true leaves the base branch exactly at the
\* rebased task tip, and that tip descends from the commit the base branch
\* pointed at when the update step began.
C5_FastForwardOnly ==
  [][\A t \in Tasks :
       (\E i \in DOMAIN last'.calls :
          last'.calls[i].t = t /\ last'.calls[i].result) =>
         /\ refs'[tasks[t].baseBranch].tip = inv[t].ffTo
         /\ inv[t].ffFrom \subseteq inv[t].ffTo]_vars

\* C6: after an invocation that returns true, the local-only file at the
\* base branch location does not hold the workspace's content, unless the
\* location held that content before.
C6_LocalFilesQuarantined ==
  [][\A i \in DOMAIN last'.calls :
       LET t   == last'.calls[i].t
           loc == LocateBase(head, tasks[t].baseBranch)
       IN (last'.calls[i].result /\ ws[t].local # "none"
           /\ locLocal'[loc] = ws[t].local) =>
            locLocal[loc] = ws[t].local]_vars

\* C7: the status of a task only moves forward along none, active,
\* completed, merged, deleted: never from completed or merged back to
\* active, never from merged to completed.
C7_StatusForward ==
  [][LET Rank(s) == CASE s = "none" -> 0 [] s = "active" -> 1
                      [] s = "completed" -> 2 [] s = "merged" -> 3
                      [] OTHER -> 4
     IN \A t \in Tasks :
          Rank(tasks'[t].status) >= Rank(tasks[t].status)]_vars

\* C7 witness: a task has been closed while another one is merged
C7_Witness ==
  /\ last.op = "close"
  /\ \E t \in Tasks : \E u \in Tasks :
       tasks[t].status = "merged" /\ tasks[u].status = "completed"

\* C8 as stated: once a task is merged, no operation modifies or deletes
\* its row.
C8_MergedRowUntouched ==
  [][\A t \in Tasks :
       tasks[t].status = "merged" => tasks'[t] = tasks[t]]_vars

\* C8 amended: once a task is merged its status never becomes another
\* status; check, close, merge and kill leave its row as it is, and the row
\* is only ever deleted, by nuke or clean.
C8_MergedRowOnlyErased ==
  [][\A t \in Tasks :
       tasks[t].status = "merged" =>
         \/ tasks'[t] = tasks[t]
         \/ /\ tasks'[t] = DeleteRow(tasks[t])
            /\ last'.op \in {"nuke", "clean"}]_vars

\* C8 witness: nuke or clean has deleted the row of a merged task
C8_Witness ==
  /\ last.op \in {"nuke", "clean"}
  /\ \E t \in Tasks : tasks[t].status = "deleted" /\ tasks[t].mergedAt

\* C9: a task's status becomes merged only in an invocation that has
\* updated the base branch to the task tip and removed the workspace; a
\* merged task has no workspace.
C9_MergedAfterTeardown ==
  [][\A t \in Tasks :
       tasks'[t].status = "merged" =>
         /\ ~ws'[t].exists
         /\ tasks[t].status # "merged" =>
              \E i \in DOMAIN last'.calls :
                last'.calls[i].t = t /\ last'.calls[i].updated]_vars

\* C9 witness: an invocation has just marked its task merged
C9_Witness ==
  \E i \in DOMAIN last.calls :
    /\ last.calls[i].result
    /\ last.calls[i].updated
    /\ tasks[last.calls[i].t].status = "merged"
    /\ ~ws[last.calls[i].t].exists

C11_UpdateAtBaseLocation ==
  [][\A i \in DOMAIN last'.calls :
       LET t == last'.calls[i].t IN
       (last'.calls[i].updated /\ head["sec"] = tasks[t].baseBranch) =>
         /\ tree'["proj"] = tree["proj"]
         /\ locLocal'["proj"] = locLocal["proj"]
         /\ (\A j \in DOMAIN last'.calls : j > i => ~last'.calls[j].updated)
              => /\ Work(t) \in tree'["sec"]
                 /\ locLocal'["sec"] = ws[t].local]_vars

\* C11 witness: an invocation has reset the secondary checkout, which has
\* the base branch, to a task's work
C11_Witness ==
  /\ head["sec"] = "main"
  /\ tree["sec"] # {}
  /\ tree["proj"] = {}
  /\ \E i \in DOMAIN last.calls : last.calls[i].updated

\* C12: with autoMerge disabled, check sets status completed and stamps
\* completedAt on every active task whose completion marker is present.
C12_CheckMarksCompleted ==
  [][(last'.op = "check" /\ ~autoMerge) =>
       \A t \in Tasks :
         (tasks[t].status = "active" /\ IsComplete(ws[t])) =>
           /\ tasks'[t].status = "completed"
           /\ tasks'[t].completedAt]_vars

C14_CheckMergesCompleted ==
  [][last'.op = "check" =>
       LET done == {i \in DOMAIN last'.calls :
                      /\ last'.calls[i].updated
                      /\ ~ws'[last'.calls[i].t].exists}
       IN /\ last'.merged = Cardinality(done)
          /\ last'.completed >= last'.merged
          /\ \A i \in done :
               LET t == last'.calls[i].t IN
               /\ last'.calls[i].result
               /\ tasks'[t].status = "merged"
               /\ Work(t) \in refs'[tasks[t].baseBranch].tip]_vars

\* C15: every spawn that returns a task has inserted one row with status
\* active and has increased the project's taskCount by 1, however the
\* project was resolved.
C15_SpawnCounts ==
  [][(last'.op = "spawn" /\ last'.fail = "none") =>
       /\ tasks[last'.task].status = "none"
       /\ tasks'[last'.task].status = "active"
       /\ \A u \in Tasks \ {last'.task} : tasks'[u] = tasks[u]
       /\ taskCount' = taskCount + 1]_vars

\* C16: a spawn that fails before the row is persisted leaves no workspace
\* and no branch behind.
C16_SpawnRollsBack ==
  [][(last'.op = "spawn" /\ last'.fail \in {"add", "insert"}) =>
       /\ ws' = ws
       /\ refs' = refs]_vars

\* C17: a spawn that fails in provider validation or in the session launch
\* surfaces the error, and its row is active with a workspace and without
\* a session handle.
C17_SpawnLaunchFailure ==
  (last.op = "spawn" /\ last.fail \in {"validate", "launch"}) =>
    /\ last.threw
    /\ tasks[last.task].status = "active"
    /\ ws[last.task].exists
    /\ ~tasks[last.task].session

\* C18: two distinct recorded tasks, spawned with the same slug, have
\* different branch names and workspace paths.
C18_NamesDistinct ==
  \A t \in Tasks : \A u \in Tasks :
    (/\ t # u
     /\ tasks[t].status \in {"active", "completed", "merged"}
     /\ tasks[u].status \in {"active", "completed", "merged"})
      => stamp[t] # stamp[u]

\* C18 witness: two tasks are recorded, one of them merged, whose workspace
\* is gone while its branch still holds the name
C18_Witness ==
  \E t \in Tasks : \E u \in Tasks :
    /\ tasks[t].status = "merged"
    /\ ~ws[t].exists
    /\ tasks[u].status = "active"

\* C19: close on an active task sets its status to completed and stamps
\* completedAt; the workspaces, the branches, the checkouts and every other
\* row are left as they were.
C19_CloseFrame ==
  [][last'.op = "close" =>
       LET t == last'.task IN
       /\ tasks[t].status = "active"
       /\ tasks'[t] = [tasks[t] EXCEPT !.status = "completed",
                                       !.completedAt = TRUE]
       /\ \A u \in Tasks \ {t} : tasks'[u] = tasks[u]
       /\ ws' = ws
       /\ refs' = refs
       /\ tree' = tree
       /\ locLocal' = locLocal]_vars

\* C19 witness: a task has just been closed and still has its workspace
C19_Witness ==
  /\ last.op = "close"
  /\ tasks[last.task].status = "completed"
  /\ tasks[last.task].completedAt
  /\ ws[last.task].exists

\* C20: merge calls mergeTask only for a task whose status is active or
\* completed; for the id of a merged task it reports that the task was not
\* found and changes nothing.
C20_MergeLookup ==
  [][last'.op = "merge" =>
       LET t == last'.task IN
       IF tasks[t].status \in {"active", "completed"}
         THEN \/ /\ Len(last'.calls) = 1
                 /\ last'.calls[1].t = t
              \/ last'.fail = "cwd"
         ELSE /\ last'.calls = <<>>
              /\ last'.fail = "notfound"
              /\ tasks' = tasks
              /\ taskCount' = taskCount
              /\ refs' = refs
              /\ ws' = ws
              /\ tree' = tree
              /\ locLocal' = locLocal]_vars

\* C20 witness: merge was given the id of a merged task and did not find it
C20_Witness ==
  /\ last.op = "merge"
  /\ last.fail = "notfound"
  /\ tasks[last.task].status = "merged"

\* C21: kill on a resolved task deletes its row, removes its workspace and
\* its branch and decreases taskCount by one; after a kill that returned
\* normally none of the three exists.
C21_KillRemovesAll ==
  [][last'.op = "kill" /\ last'.fail = "none" /\ ~last'.threw =>
       LET t == last'.task IN
       /\ tasks'[t].status = "deleted"
       /\ ~ws'[t].exists
       /\ ~refs'[BranchOf(t)].exists
       /\ taskCount' = taskCount - 1]_vars

\* C22: kill on a task whose workspace directory was deleted by hand skips
\* the removal of the workspace and still deletes the branch and the row.
C22_KillAfterOutsideRemoval ==
  [][/\ last'.op = "kill"
     /\ last'.fail = "none"
     /\ ~ws[last'.task].exists
     => LET t == last'.task IN
        /\ ws' = ws
        /\ tasks'[t].status = "deleted"
        /\ ~refs'[BranchOf(t)].exists]_vars

\* C23: a closed task can afterwards be deleted with kill: kill resolves it
\* and removes its workspace, its branch and its row.
C23_KillAfterClose ==
  [][last'.op = "kill" /\ tasks[last'.task].status = "completed" =>
       LET t == last'.task IN
       /\ last'.fail # "notfound"
       /\ tasks'[t].status = "deleted"
       /\ ~ws'[t].exists
       /\ ~refs'[BranchOf(t)].exists]_vars

\* C24: nuke deletes every row of the project whatever its status, with the
\* workspace and the branch of each row it deletes, and decreases taskCount by
\* one for each row deleted; a task that fails does not stop the others.
C24_NukeLikeKill ==
  [][last'.op = "nuke" =>
       LET rows == {t \in Tasks :
                      tasks[t].status \in {"active", "completed", "merged"}}
           gone == {t \in rows : tasks'[t].status = "deleted"}
       IN  /\ \A t \in gone : ~ws'[t].exists /\ ~refs'[BranchOf(t)].exists
           /\ taskCount' = taskCount - Cardinality(gone)]_vars

\* C25: close, kill, send and read-output resolve a key only to an active
\* task, merge only to an active or completed one; the name of the resolved
\* task is the key or its id begins with the key, and with a known project
\* scope the task belongs to that project.
C25_LookupResolves ==
  [][last'.op = "lookup" /\ last'.task # 0 =>
       LET row == tasks[last'.task]
           key == last'.key
       IN  /\ row.status \in IF last'.cmd = "merge"
                               THEN {"active", "completed"} ELSE {"active"}
           /\ \/ row.name = key
              \/ /\ Len(key) <= Len(row.id)
                 /\ SubSeq(row.id, 1, Len(key)) = key
           /\ last'.scope # "none" => row.project = last'.scope]_vars

C27_FailureCanRetry ==
  [][\A i \in DOMAIN last'.calls :
       LET t == last'.calls[i].t IN
       ~last'.calls[i].result /\ ws[t].exists =>
         /\ tasks'[t].status \in {"active", "completed"}
         /\ ws'[t].exists]_vars

\* C28: mergeTask never lets an exception out: a failure at any of its
\* steps ends in the return value false.
C28_MergeNeverThrows ==
  [][last'.op = "merge" /\ tasks[last'.task].status \in {"active", "completed"}
       => /\ ~last'.threw
          /\ Len(last'.calls) = 1]_vars

\* C30: the merge-commit variant of mergeTask keeps the contract of the
\* rebase variant: on success the task is merged, its workspace is removed
\* and the base branch contains its commits; on failure the status is
\* unchanged and the checkout of the base branch holds no partial merge.
C30_MergeCommitContract ==
  [][\A i \in DOMAIN last'.calls :
       LET t == last'.calls[i].t
           b == tasks[t].baseBranch
       IN  IF last'.calls[i].result
             THEN /\ tasks'[t].status = "merged"
                  /\ ~ws'[t].exists
                  /\ refs[BranchOf(t)].tip \subseteq refs'[b].tip
             ELSE /\ tasks'[t].status = tasks[t].status
                  /\ \A l \in Locations :
                       head'[l] = b => tree'[l] \subseteq refs'[b].tip]_vars

C31_CleanFrame ==
  [][last'.op = "clean" =>
       \A t \in Tasks :
         (\/ tasks'[t] # tasks[t]
          \/ ws'[t].exists # ws[t].exists
          \/ refs'[BranchOf(t)] # refs[BranchOf(t)])
         => /\ tasks[t].status \in {"completed", "merged"}
            /\ last'.scope = "all" \/ tasks[t].project = last'.scope]_vars

\* C31 witness: clean of one project erased a completed task and left a
\* completed task of the other project and its workspace in place
C31_Witness ==
  /\ last.op = "clean"
  /\ last.scope = "proj"
  /\ \E t, u \in Tasks :
       /\ tasks[t].status = "deleted"
       /\ tasks[t].project = "proj"
       /\ ~ws[t].exists
       /\ tasks[u].status = "completed"
       /\ tasks[u].project = "other"
       /\ ws[u].exists

\* C32: mergeTask never rebases or fast-forwards a workspace with uncommitted
\* changes: a dirty workspace is committed first, and when that commit fails
\* the invocation returns false with no reference and no checkout changed.
C32_DirtyCommittedFirst ==
  [][\A t \in Tasks :
       /\ (inv[t].pc = "begin" /\ ws[t].exists /\ ws[t].dirty
           /\ ~ws[t].conflict /\ inv'[t] # inv[t])
          => \/ /\ inv'[t].pc = "fetch"
                /\ ~ws'[t].dirty
                /\ Work(t) \in refs'[BranchOf(t)].tip
                /\ \A b \in BaseBranches : refs'[b] = refs[b]
             \/ /\ inv'[t].pc = "idle"
                /\ last'.calls = <<[t |-> t, result |-> FALSE,
                                    updated |-> FALSE]>>
                /\ refs' = refs
                /\ tree' = tree
                /\ tasks' = tasks
       /\ inv'[t].pc \in {"rebase", "ff", "teardown"} =>
            ~ws'[t].dirty /\ Work(t) \in refs'[BranchOf(t)].tip]_vars

\* C32 witness: the commit of a dirty workspace failed and mergeTask returned
\* false at once
C32_Witness ==
  /\ last.op = "merge"
  /\ Len(last.calls) = 1
  /\ ~last.calls[1].result
  /\ ws[last.task].exists
  /\ ws[last.task].dirty
  /\ faults > 0

\* C33: after any sequence of spawn, check, close, merge, kill, nuke and
\* clean the project's taskCount is the number of task rows stored for it.
C33_CountIsRows ==
  taskCount = Cardinality({t \in Tasks :
                             tasks[t].status \in {"active", "completed",
                                                  "merged"}})

\* C34: the project's taskCount is never negative.
C34_CountNotNegative == taskCount >= 0

\* C35: every stored task is well formed: its status is active, completed or
\* merged; an active task has neither completedAt nor mergedAt, a completed
\* task has completedAt and no mergedAt, a merged task has both.
C35_RowsWellFormed ==
  \A t \in Tasks :
    tasks[t].status \notin {"none", "deleted"} =>
      /\ tasks[t].status \in {"active", "completed", "merged"}
      /\ tasks[t].completedAt = (tasks[t].status \in {"completed", "merged"})
      /\ tasks[t].mergedAt = (tasks[t].status = "merged")

\* C35 witness: a closed task and a merged task are stored side by side
C35_Witness ==
  \E t, u \in Tasks :
    /\ tasks[t].status = "completed"
    /\ tasks[t].completedAt
    /\ tasks[u].status = "merged"
    /\ tasks[u].mergedAt

\* C36: mergeTask never deletes or overwrites a local-only file that was at
\* the base branch location before: after an invocation that returns true
\* the file is still there with the content it had, whether or not the
\* workspace had a file of that name.
C36_BaseLocalFileKept ==
  [][(\E i \in DOMAIN last'.calls : last'.calls[i].result) =>
       \A l \in Locations :
         locLocal[l] # "none" => locLocal'[l] = locLocal[l]]_vars

\* C37: mergeTask never discards uncommitted modifications of the checkout
\* in which the base branch is checked out: what was modified there before
\* the call is still modified after it, on success and on failure.
C37_BaseEditsKept ==
  [][last'.calls # <<>> =>
       \A l \in Locations :
         LocalEdit \in tree[l] => LocalEdit \in tree'[l]]_vars

\* C38: close, merge and kill applied to one task never change the row, the
\* workspace content or the branch of another task, also when the branch of
\* the other task is the base branch of the task operated on.
C38_OtherTasksUntouched ==
  [][last'.op \in {"close", "merge", "kill"} =>
       \A u \in Tasks \ {last'.task} :
         /\ tasks'[u] = tasks[u]
         /\ ws'[u] = ws[u]
         /\ refs'[BranchOf(u)] = refs[BranchOf(u)]]_vars

\* C39: a merge leaves the working directory of the process where it was at
\* the start of the call, on every path, and the results it can report are
\* the same whether it is called from inside the workspace of the task or
\* from the project path.
C39_CwdRestored ==
  \A t \in Tasks :
    tasks[t].status \in {"active", "completed"} /\ ws[t].exists =>
      LET inside  == MergeTask(Enter(t, "merge", BranchOf(t)))
          outside == MergeTask(Enter(t, "merge", "proj"))
      IN /\ \A c \in inside : CwdAfter(c) = BranchOf(t)
         /\ \A c \in outside : CwdAfter(c) = "proj"
         /\ {c.f.result : c \in inside} = {c.f.result : c \in outside}

\* C40: in every reachable state a workspace or task branch that exists
\* belongs to a row of the store, and the workspace and the branch of every
\* active task exist.
C40_NoOrphans ==
  \A t \in Tasks :
    /\ (ws[t].exists \/ refs[BranchOf(t)].exists) =>
         tasks[t].status \in {"active", "completed", "merged"}
    /\ tasks[t].status = "active" =>
         ws[t].exists /\ refs[BranchOf(t)].exists
====
